---- MODULE Spec2Model ----
(***************************************************************************)
(* Model of pcs_scraper/rider.py: the Rider class.  A behaviour is one     *)
(* call of one Rider method on one parsed document (self.soup) or, for     *)
(* get_race_history, on the pages the results endpoint serves.             *)
(*                                                                         *)
(* Text is modelled as sequences of one-character strings so that Python's *)
(* str.find, slicing, split, replace, int() and float() are computed the   *)
(* way the interpreter computes them.                                      *)
(***************************************************************************)
EXTENDS Integers, Sequences, FiniteSets, TLC

VARIABLES call, soup, pc, result, limits, page, table_rows, i, data_out

vars == <<call, soup, pc, result, limits, page, table_rows, i, data_out>>

----------------------------------------------------------------------------
(* Bounds of the model *)

MaxNameLen == 5

MaxInfoLen == 4

MaxHrefPieces == 3

MaxTeamHrefLen == 11

MaxRankLen == 2

MaxRanks == 3

(* rows over all pages of the results endpoint, and pages *)
MaxRows == 4

MaxPages == 2

----------------------------------------------------------------------------
(* Python values *)

PyNone == [type |-> "NoneType"]

PyInt(n) == [type |-> "int", val |-> n]

PyStr(s) == [type |-> "str", chars |-> s]

Return(v) == [kind |-> "return", value |-> v]

Raise(e) == [kind |-> "raise", error |-> e]

NoResult == [kind |-> "none"]

(* A lookup (soup.find) that found nothing, and one that found a tag. *)
NoTag == [present |-> FALSE]

Tag(v) == [present |-> TRUE, val |-> v]

----------------------------------------------------------------------------
(* Python str operations on sequences of characters *)

Digits == {"0", "1", "2", "3", "4", "5", "6", "7", "8", "9"}

DigitVal(c) ==
    CASE c = "0" -> 0 [] c = "1" -> 1 [] c = "2" -> 2 [] c = "3" -> 3
      [] c = "4" -> 4 [] c = "5" -> 5 [] c = "6" -> 6 [] c = "7" -> 7
      [] c = "8" -> 8 [] c = "9" -> 9

IsSpace(c) == c \in {" ", "\t", "\n"}

Min(a, b) == IF a < b THEN a ELSE b

Max(a, b) == IF a > b THEN a ELSE b

(* All character sequences of length at most n over alphabet A. *)
Texts(A, n) == UNION {[1..k -> A] : k \in 0..n}

(* s.find(c): the 0-based index of the first c in s, -1 when there is none. *)
PyFind(s, c) ==
    IF \E k \in 1..Len(s) : s[k] = c
    THEN (CHOOSE k \in 1..Len(s) : s[k] = c /\ \A j \in 1..(k-1) : s[j] # c) - 1
    ELSE -1

(* A slice bound as Python clamps it: negative counts from the end. *)
PyBound(s, b) == IF b < 0 THEN Max(Len(s) + b, 0) ELSE Min(b, Len(s))

(* s[a:b] *)
PySlice(s, a, b) == SubSeq(s, PyBound(s, a) + 1, PyBound(s, b))

(* s[a:] *)
PySliceFrom(s, a) == SubSeq(s, PyBound(s, a) + 1, Len(s))

(* whether sub occurs in s starting at 1-based position k *)
OccursAt(s, sub, k) ==
    /\ k >= 1
    /\ k + Len(sub) - 1 <= Len(s)
    /\ \A j \in 1..Len(sub) : s[k + j - 1] = sub[j]

(* sub in s *)
PyContains(s, sub) == \E k \in 1..(Len(s) + 1) : OccursAt(s, sub, k)

(* s.replace(old, new) for a non-empty old: left to right, non-overlapping,
   a single pass. *)
RECURSIVE PyReplace(_, _, _)
PyReplace(s, old, new) ==
    IF s = <<>> THEN <<>>
    ELSE IF OccursAt(s, old, 1)
         THEN new \o PyReplace(SubSeq(s, Len(old) + 1, Len(s)), old, new)
         ELSE <<s[1]>> \o PyReplace(Tail(s), old, new)

(* s.strip() *)
RECURSIVE LStrip(_)
LStrip(s) == IF s # <<>> /\ IsSpace(s[1]) THEN LStrip(Tail(s)) ELSE s

RECURSIVE RStrip(_)
RStrip(s) ==
    IF s # <<>> /\ IsSpace(s[Len(s)]) THEN RStrip(SubSeq(s, 1, Len(s) - 1)) ELSE s

PyStrip(s) == LStrip(RStrip(s))

(* the number written by a sequence of digits and underscores *)
RECURSIVE DigitsValue(_)
DigitsValue(s) ==
    IF s = <<>> THEN 0
    ELSE IF s[Len(s)] = "_" THEN DigitsValue(SubSeq(s, 1, Len(s) - 1))
         ELSE 10 * DigitsValue(SubSeq(s, 1, Len(s) - 1)) + DigitVal(s[Len(s)])

(* digits, with single underscores allowed between digits *)
IsDigitRun(s) ==
    /\ s # <<>>
    /\ \A k \in 1..Len(s) : s[k] \in Digits \cup {"_"}
    /\ s[1] \in Digits
    /\ s[Len(s)] \in Digits
    /\ \A k \in 1..(Len(s) - 1) : ~(s[k] = "_" /\ s[k + 1] = "_")

(* int(s): surrounding whitespace is stripped, a sign is allowed, the rest is
   a run of digits; anything else is a ValueError. *)
IntOfStr(s) ==
    LET t == PyStrip(s)
        signed == t # <<>> /\ t[1] \in {"+", "-"}
        body == IF signed THEN Tail(t) ELSE t
    IN  IF IsDigitRun(body)
        THEN Return(PyInt(IF signed /\ t[1] = "-" THEN 0 - DigitsValue(body)
                                                  ELSE DigitsValue(body)))
        ELSE Raise("ValueError")

(* s.split(): the maximal runs of non-whitespace characters, in order *)
RECURSIVE PySplit(_)
PySplit(s) ==
    LET t == LStrip(s)
    IN  IF t = <<>> THEN <<>>
        ELSE LET n == IF \E k \in 1..Len(t) : IsSpace(t[k])
                      THEN (CHOOSE k \in 1..Len(t) :
                               IsSpace(t[k]) /\ \A j \in 1..(k-1) : ~IsSpace(t[j])) - 1
                      ELSE Len(t)
             IN  <<SubSeq(t, 1, n)>> \o PySplit(SubSeq(t, n + 1, Len(t)))

(* s.isdigit() *)
IsDigit(s) == s # <<>> /\ \A k \in 1..Len(s) : s[k] \in Digits

RECURSIVE Pow10(_)
Pow10(n) == IF n = 0 THEN 1 ELSE 10 * Pow10(n - 1)

(* a float as the fraction num/den, den a power of ten, in lowest such terms *)
RECURSIVE PyFloat(_, _)
PyFloat(num, den) ==
    IF den > 1 /\ num % 10 = 0 THEN PyFloat(num \div 10, den \div 10)
    ELSE [type |-> "float", num |-> num, den |-> den]

(* float(s) for decimal notation: surrounding whitespace is stripped, a sign
   is allowed, then digits with at most one point and at least one digit;
   anything else is a ValueError.  (Exponents, "inf" and "nan" need letters
   the modelled texts do not hold.) *)
FloatOfStr(s) ==
    LET t == PyStrip(s)
        signed == t # <<>> /\ t[1] \in {"+", "-"}
        body == IF signed THEN Tail(t) ELSE t
        dot == PyFind(body, ".")
        whole == IF dot < 0 THEN body ELSE SubSeq(body, 1, dot)
        frac == IF dot < 0 THEN <<>> ELSE SubSeq(body, dot + 2, Len(body))
        mag == DigitsValue(whole \o frac)
    IN  IF /\ whole \o frac # <<>>
           /\ \A k \in 1..Len(whole) : whole[k] \in Digits
           /\ \A k \in 1..Len(frac) : frac[k] \in Digits
        THEN Return(PyFloat(IF signed /\ t[1] = "-" THEN 0 - mag ELSE mag,
                            Pow10(Len(frac))))
        ELSE Raise("ValueError")

(* str(None) *)
NoneStr == <<"N", "o", "n", "e">>

----------------------------------------------------------------------------
(* Rider.get_name *)

NameAlphabet == {" ", "J", "D"}

(* the double space and the single space of get_name's replace *)
DoubleSpace == <<" ", " ">>

SingleSpace == <<" ">>

NameSoups ==
    {[title |-> NoTag]} \cup {[title |-> Tag(NoTag)]}
      \cup {[title |-> Tag(Tag(t))] : t \in Texts(NameAlphabet, MaxNameLen)}

(* a get_name that leaves the heading as it is *)
CollapseSpaces_Unchanged(printed_name) == printed_name

CollapseSpaces(printed_name) ==
    IF PyContains(printed_name, DoubleSpace)
    THEN PyReplace(printed_name, DoubleSpace, SingleSpace)
    ELSE printed_name

GetName(s) ==
    IF ~s.title.present THEN Raise("AttributeError")
    ELSE IF ~s.title.val.present THEN Raise("AttributeError")
    ELSE Return(PyStr(CollapseSpaces(s.title.val.val)))

get_name ==
    /\ call = "get_name"
    /\ pc = "start"
    /\ result' = GetName(soup)
    /\ pc' = "done"
    /\ UNCHANGED <<call, soup, limits, page, table_rows, i, data_out>>

----------------------------------------------------------------------------
(* Rider.get_age *)

AgeAlphabet == {"(", ")", "2", "8", " ", "x"}

(* the info block: absent, or the sequence of its text nodes *)
AgeSoups ==
    {[info |-> NoTag]} \cup {[info |-> Tag(<<t>>)] : t \in Texts(AgeAlphabet, MaxInfoLen) \ {<<>>}}
      \cup {[info |-> Tag(<<>>)]}

(* tag.text: the text nodes of the tag, concatenated *)
RECURSIVE TextOf(_)
TextOf(nodes) == IF nodes = <<>> THEN <<>> ELSE Head(nodes) \o TextOf(Tail(nodes))

GetAge(s) ==
    IF ~s.info.present THEN Raise("AttributeError")
    ELSE LET reported_age == TextOf(s.info.val)
             reported_age_start == PyFind(reported_age, "(")
             reported_age_end == PyFind(reported_age, ")")
         IN  IntOfStr(PySlice(reported_age, reported_age_start + 1, reported_age_end))

get_age ==
    /\ call = "get_age"
    /\ pc = "start"
    /\ result' = GetAge(soup)
    /\ pc' = "done"
    /\ UNCHANGED <<call, soup, limits, page, table_rows, i, data_out>>

----------------------------------------------------------------------------
(* Rider.get_height and Rider.get_weight *)

HeightAlphabet == {"1", ".", " ", "m"}

WeightAlphabet == {"6", ".", " ", "k", "g"}

(* the info block holding text t as one text node, or as two *)
NodesOf(t) ==
    {<<t>>} \cup {<<SubSeq(t, 1, k), SubSeq(t, k + 1, Len(t))>> : k \in 1..(Len(t) - 1)}

InfoSoups(A) ==
    {[info |-> NoTag]} \cup {[info |-> Tag(<<>>)]}
      \cup {[info |-> Tag(n)] : n \in UNION {NodesOf(t) : t \in Texts(A, MaxInfoLen) \ {<<>>}}}

(* the patterns of re.compile(" m") and re.compile(" kg") *)
HeightPattern == <<" ", "m">>

WeightPattern == <<" ", "k", "g">>

(* tag.find(string=pattern): the first text node the pattern is found in *)
FindString(nodes, pattern) ==
    IF \E k \in 1..Len(nodes) : PyContains(nodes[k], pattern)
    THEN Tag(nodes[CHOOSE k \in 1..Len(nodes) :
                     /\ PyContains(nodes[k], pattern)
                     /\ \A j \in 1..(k-1) : ~PyContains(nodes[j], pattern)])
    ELSE NoTag

(* type(x) == None: type(x) is a class, which never equals None *)
TypeIsNone(found) == FALSE

(* str(x) of what find returned *)
StrOf(found) == IF found.present THEN found.val ELSE NoneStr

GetHeight(s) ==
    IF ~s.info.present THEN Raise("AttributeError")
    ELSE LET reported_height == FindString(s.info.val, HeightPattern)
         IN  IF TypeIsNone(reported_height) THEN Return(PyNone)
             ELSE LET tokens == PySplit(StrOf(reported_height))
                  IN  IF tokens = <<>> THEN Raise("IndexError")
                      ELSE FloatOfStr(tokens[1])

get_height ==
    /\ call = "get_height"
    /\ pc = "start"
    /\ result' = GetHeight(soup)
    /\ pc' = "done"
    /\ UNCHANGED <<call, soup, limits, page, table_rows, i, data_out>>

GetWeight(s) ==
    IF ~s.info.present THEN Raise("AttributeError")
    ELSE LET reported_weight == FindString(s.info.val, WeightPattern)
         IN  IF TypeIsNone(reported_weight) THEN Return(PyNone)
             ELSE LET numeric == SelectSeq(PySplit(StrOf(reported_weight)), IsDigit)
                  IN  IF numeric = <<>> THEN Raise("IndexError")
                      ELSE FloatOfStr(numeric[1])

get_weight ==
    /\ call = "get_weight"
    /\ pc = "start"
    /\ result' = GetWeight(soup)
    /\ pc' = "done"
    /\ UNCHANGED <<call, soup, limits, page, table_rows, i, data_out>>

----------------------------------------------------------------------------
(* Rider.get_strava *)

StravaWord == <<"s", "t", "r", "a", "v", "a">>

(* hrefs are built from these pieces *)
HrefPieces == {StravaWord, <<"/">>, <<"7">>}

RECURSIVE Joined(_)
Joined(pieces) == IF pieces = <<>> THEN <<>> ELSE Head(pieces) \o Joined(Tail(pieces))

SiteHrefs == {Joined(ps) : ps \in Texts(HrefPieces, MaxHrefPieces)}

(* the child text nodes an anchor may have: none, "strava", "Strava" *)
SiteContents == {<<>>, <<StravaWord>>, <<<<"S", "t", "r", "a", "v", "a">>>>}

(* the anchors find_all("a", class_="", href=True) returns *)
SiteLinks == [contents : SiteContents, href : SiteHrefs]

(* the social-links list: absent, or with no, one or two anchors *)
StravaSoup(s) ==
    \/ s = [sites |-> NoTag]
    \/ s = [sites |-> Tag(<<>>)]
    \/ \E a \in SiteLinks : s = [sites |-> Tag(<<a>>)]
    \/ \E a \in SiteLinks, b \in SiteLinks : s = [sites |-> Tag(<<a, b>>)]

(* 'strava' in link: Tag.__contains__ looks for the word among the tag's
   children, so it holds when a child text node equals the word *)
StravaInLink(link) == \E k \in 1..Len(link.contents) : link.contents[k] = StravaWord

(* the 0-based places of "/" in s, in order *)
SlashLocs(s) == SelectSeq([k \in 1..Len(s) |-> k - 1], LAMBDA k : s[k + 1] = "/")

StravaDict(link, id) == [type |-> "dict", link |-> link, id |-> id]

(* the loop over links, from the k-th one on, with the details found so far *)
RECURSIVE StravaLoop(_, _, _, _)
StravaLoop(links, k, strava_link, strava_id) ==
    IF k > Len(links) THEN Return(StravaDict(strava_link, strava_id))
    ELSE IF StravaInLink(links[k])
         THEN LET href == links[k].href
                  locs == SlashLocs(href)
              IN  IF locs = <<>> THEN Raise("IndexError")
                  ELSE StravaLoop(links, k + 1, href,
                                  PySliceFrom(href, locs[Len(locs)] + 1))
         ELSE StravaLoop(links, k + 1, strava_link, strava_id)

GetStrava(s) ==
    IF ~s.sites.present THEN Raise("AttributeError")
    ELSE StravaLoop(s.sites.val, 1, <<>>, <<>>)

get_strava ==
    /\ call = "get_strava"
    /\ pc = "start"
    /\ result' = GetStrava(soup)
    /\ pc' = "done"
    /\ UNCHANGED <<call, soup, limits, page, table_rows, i, data_out>>

----------------------------------------------------------------------------
(* Rider.get_team_history *)

TeamHrefAlphabet == {"t", "2"}

(* the link of the specification's scenario, with and without its leading
   slash *)
ExampleTeamHref ==
    <<"t", "e", "a", "m", "/">>
      \o <<"e", "x", "a", "m", "p", "l", "e", "-", "t", "e", "a", "m">>
      \o <<"-", "2", "0", "2", "3">>

SlashedTeamHref == <<"/">> \o ExampleTeamHref

TeamHrefs == Texts(TeamHrefAlphabet, MaxTeamHrefLen) \cup {ExampleTeamHref, SlashedTeamHref}

(* a "main" entry of the team list: its season label and its first anchor *)
TeamEntry(href) == [season |-> Tag("2023"), a |-> Tag([text |-> "Team", href |-> href])]

TeamSoups ==
    {[teams |-> NoTag]} \cup {[teams |-> Tag(<<>>)]}
      \cup {[teams |-> Tag(<<TeamEntry(h)>>)] : h \in TeamHrefs}
      \cup {[teams |-> Tag(<<[season |-> NoTag, a |-> TeamEntry(<<>>).a]>>)]}
      \cup {[teams |-> Tag(<<[season |-> Tag("2023"), a |-> NoTag]>>)]}
      \cup {[teams |-> Tag(<<TeamEntry(ExampleTeamHref), TeamEntry(h)>>)] :
                h \in {SlashedTeamHref, <<"t", "2">>}}

(* a slice that drops six leading characters, "/team/" *)
TeamPcsName_DropSix(team_href) == PySlice(team_href, 6, -5)

(* team_href[5:-5] *)
TeamPcsName(team_href) == PySlice(team_href, 5, -5)

(* team_href[-4:] *)
TeamPcsYear(team_href) == PySliceFrom(team_href, -4)

(* the loop over teams, from the k-th one on, with the rows built so far *)
RECURSIVE TeamLoop(_, _, _)
TeamLoop(teams, k, data) ==
    IF k > Len(teams)
    THEN Return([type |-> "DataFrame", rows |-> data])
    ELSE IF ~teams[k].season.present \/ ~teams[k].a.present
         THEN Raise("AttributeError")
         ELSE LET team_href == teams[k].a.val.href
              IN  TeamLoop(teams, k + 1,
                           data \o <<[season |-> teams[k].season.val,
                                      team_name |-> teams[k].a.val.text,
                                      team_href |-> team_href,
                                      team_pcs_name |-> TeamPcsName(team_href),
                                      team_pcs_year |-> TeamPcsYear(team_href)]>>)

GetTeamHistory(s) ==
    IF ~s.teams.present THEN Raise("AttributeError")
    ELSE TeamLoop(s.teams.val, 1, <<>>)

get_team_history ==
    /\ call = "get_team_history"
    /\ pc = "start"
    /\ result' = GetTeamHistory(soup)
    /\ pc' = "done"
    /\ UNCHANGED <<call, soup, limits, page, table_rows, i, data_out>>

----------------------------------------------------------------------------
(* Rider.get_ranks *)

RankAlphabet == {"3", "x"}

RankSoups ==
    {[rankings |-> NoTag]}
      \cup {[rankings |-> Tag(l)] : l \in Texts(Texts(RankAlphabet, MaxRankLen), MaxRanks)}

(* a dictionary with the two ranks exchanged *)
RanksDict_Swapped(pcs, uci) == [type |-> "dict", pcs |-> uci, uci |-> pcs]

RanksDict(pcs, uci) == [type |-> "dict", pcs |-> pcs, uci |-> uci]

(* The loop binds pcs_rank at i == 0 and uci_rank at i == 1 and passes over
   every later element; the dictionary then reads both names, and a name the
   loop never bound is an UnboundLocalError. *)
GetRanks(s) ==
    IF ~s.rankings.present THEN Raise("AttributeError")
    ELSE LET links == s.rankings.val
             pcs_rank == IF Len(links) >= 1 THEN IntOfStr(links[1]) ELSE Raise("UnboundLocalError")
             uci_rank == IF Len(links) >= 2 THEN IntOfStr(links[2]) ELSE Raise("UnboundLocalError")
         IN  IF Len(links) >= 1 /\ pcs_rank.kind = "raise" THEN pcs_rank
             ELSE IF Len(links) >= 2 /\ uci_rank.kind = "raise" THEN uci_rank
             ELSE IF pcs_rank.kind = "raise" THEN pcs_rank
             ELSE IF uci_rank.kind = "raise" THEN uci_rank
             ELSE Return(RanksDict(pcs_rank.value, uci_rank.value))

get_ranks ==
    /\ call = "get_ranks"
    /\ pc = "start"
    /\ result' = GetRanks(soup)
    /\ pc' = "done"
    /\ UNCHANGED <<call, soup, limits, page, table_rows, i, data_out>>

----------------------------------------------------------------------------
(* Rider.get_race_history *)

(* limit=100 of the results query: the offsets of the selector are its
   multiples *)
PageSize == 100

(* the columns of the results frame *)
Columns ==
    <<"date", "result", "race_name", "race_href", "race_pcs_name", "race_pcs_year",
      "classification", "distance", "pcs_points", "uci_points">>

(* a td with text only, and a td holding an anchor *)
Cell(text) == [text |-> text, a |-> NoTag]

RaceCell(text, href) == [text |-> text, a |-> Tag([text |-> text, href |-> href])]

(* a stage result with every column filled *)
FullRow ==
    <<Cell(<<"1">>), Cell(<<"d">>), Cell(<<"1">>),
      RaceCell(<<"T">>, <<"r", "/", "t", "/", "3", "/", "s">>),
      Cell(<<"S">>), Cell(<<"9">>), Cell(<<"5">>), Cell(<<"4">>)>>

(* a classification result: no result, distance or points *)
SparseRow ==
    <<Cell(<<"2">>), Cell(<<"d">>), Cell(<<>>),
      RaceCell(<<"G">>, <<"r", "/", "g", "/", "3">>),
      Cell(<<>>), Cell(<<>>), Cell(<<>>), Cell(<<>>)>>

(* a row of empty cells, its race column without an anchor *)
BlankRow ==
    <<Cell(<<>>), Cell(<<>>), Cell(<<>>), Cell(<<>>),
      Cell(<<>>), Cell(<<>>), Cell(<<>>), Cell(<<>>)>>

(* a row of a single cell *)
ShortRow == <<Cell(<<"x">>)>>

RowKinds == {FullRow, SparseRow, BlankRow, ShortRow}

RECURSIVE SumSeq(_)
SumSeq(ns) == IF ns = <<>> THEN 0 ELSE Head(ns) + SumSeq(Tail(ns))

(* rows cut into consecutive pages of the given lengths *)
RECURSIVE CutPages(_, _)
CutPages(rows, lens) ==
    IF lens = <<>> THEN <<>>
    ELSE <<SubSeq(rows, 1, Head(lens))>>
           \o CutPages(SubSeq(rows, Head(lens) + 1, Len(rows)), Tail(lens))

(* the ways to spread n rows over at most MaxPages pages *)
PageLens(n) == {lens \in Texts(0..n, MaxPages) : SumSeq(lens) = n}

(* What the results endpoint serves: the offset selector of the first page
   (absent, or one option per page) and, per offset, a page whose table body
   is absent or holds rows. *)
RaceSoup(s) ==
    \/ s = [select |-> NoTag, pages |-> <<>>]
    \/ \E rows \in Texts(RowKinds, MaxRows) :
          \E lens \in PageLens(Len(rows)) :
             \E missing \in SUBSET {k \in 1..Len(lens) : lens[k] = 0} :
                s = [select |-> Tag([k \in 1..Len(lens) |-> (k - 1) * PageSize]),
                     pages |-> [k \in 1..Len(lens) |->
                                  IF k \in missing THEN NoTag
                                  ELSE Tag(CutPages(rows, lens)[k])]]

(* s.split(sep) for a one-character sep: the parts between the separators,
   empty ones kept *)
RECURSIVE PySplitOn(_, _)
PySplitOn(s, sep) ==
    LET n == PyFind(s, sep)
    IN  IF n < 0 THEN <<s>>
        ELSE <<SubSeq(s, 1, n)>> \o PySplitOn(SubSeq(s, n + 2, Len(s)), sep)

(* a text kept as it is, empty or not *)
Sentinel_Unchanged(text) == text

(* the text kept for a column that is not the race column *)
Sentinel(text) == IF text = <<>> THEN <<"-">> ELSE text

(* the loop over the columns of a row, from column j (0-based) on, with the
   list built so far *)
RECURSIVE ColumnLoop(_, _, _)
ColumnLoop(items, j, race_list) ==
    IF j >= Len(items) THEN Return(race_list)
    ELSE IF j = 0 THEN ColumnLoop(items, j + 1, race_list)
    ELSE IF j = 3
         THEN IF ~items[j + 1].a.present THEN Raise("AttributeError")
              ELSE LET race_name == items[j + 1].a.val.text
                       race_href == items[j + 1].a.val.href
                       parts == PySplitOn(race_href, "/")
                   IN  IF Len(parts) < 2 THEN Raise("IndexError")
                       ELSE ColumnLoop(items, j + 1,
                                       race_list \o <<race_name, race_href, parts[2],
                                                      parts[Len(parts) - 1]>>)
         ELSE ColumnLoop(items, j + 1, race_list \o <<Sentinel(items[j + 1].text)>>)

(* a loop that passes over no row *)
IsLastRow_Never(k, rows) == FALSE

(* whether row k (0-based) is the one the loop passes over *)
IsLastRow(k, rows) == k = Len(rows) - 1

RECURSIVE MaxLen(_)
MaxLen(lists) == IF lists = <<>> THEN 0 ELSE Max(Len(Head(lists)), MaxLen(Tail(lists)))

(* a row of the frame: the list's strings, filled up with None *)
FrameRow(race_list) ==
    [k \in 1..Len(Columns) |-> IF k <= Len(race_list) THEN PyStr(race_list[k]) ELSE PyNone]

(* pd.DataFrame(data, columns): no rows give an empty frame; otherwise the
   longest row must have as many values as there are columns (a ValueError
   if not) and shorter rows are filled up with None. *)
DataFrame(data) ==
    IF data # <<>> /\ MaxLen(data) # Len(Columns) THEN Raise("ValueError")
    ELSE Return([type |-> "DataFrame", rows |-> [k \in 1..Len(data) |-> FrameRow(data[k])]])

(* the first query: the options of the offset selector *)
rh_discover ==
    /\ call = "get_race_history"
    /\ pc = "start"
    /\ IF soup.select.present
       THEN /\ limits' = soup.select.val
            /\ pc' = "limits"
            /\ UNCHANGED result
       ELSE /\ result' = Raise("AttributeError")
            /\ pc' = "done"
            /\ UNCHANGED limits
    /\ UNCHANGED <<call, soup, page, table_rows, i, data_out>>

(* the next offset of the loop: its page is fetched and its rows found *)
rh_fetch ==
    /\ call = "get_race_history"
    /\ pc = "limits"
    /\ page < Len(limits)
    /\ page' = page + 1
    /\ LET results_soup == soup.pages[(limits[page + 1] \div PageSize) + 1]
       IN  IF ~results_soup.present
           THEN /\ result' = Raise("AttributeError")
                /\ pc' = "done"
                /\ UNCHANGED <<table_rows, i>>
           ELSE /\ table_rows' = results_soup.val
                /\ i' = 0
                /\ pc' = IF results_soup.val = <<>> THEN "limits" ELSE "rows"
                /\ UNCHANGED result
    /\ UNCHANGED <<call, soup, limits, data_out>>

(* one row of the page: passed over when it is the last, else its columns
   become one more list of data_out *)
rh_row ==
    /\ call = "get_race_history"
    /\ pc = "rows"
    /\ i < Len(table_rows)
    /\ LET race_list == ColumnLoop(table_rows[i + 1], 0, <<>>)
       IN  IF IsLastRow(i, table_rows)
           THEN /\ pc' = "limits"
                /\ i' = i + 1
                /\ UNCHANGED <<data_out, result>>
           ELSE IF race_list.kind = "raise"
           THEN /\ result' = race_list
                /\ pc' = "done"
                /\ UNCHANGED <<data_out, i>>
           ELSE /\ data_out' = data_out \o <<race_list.value>>
                /\ i' = i + 1
                /\ pc' = IF i + 1 < Len(table_rows) THEN "rows" ELSE "limits"
                /\ UNCHANGED result
    /\ UNCHANGED <<call, soup, limits, page, table_rows>>

(* after the last offset: the frame is built and returned *)
rh_frame ==
    /\ call = "get_race_history"
    /\ pc = "limits"
    /\ page = Len(limits)
    /\ result' = DataFrame(data_out)
    /\ pc' = "done"
    /\ UNCHANGED <<call, soup, limits, page, table_rows, i, data_out>>

----------------------------------------------------------------------------
(* The specification *)

Calls ==
    {"get_name", "get_age", "get_height", "get_weight", "get_strava",
     "get_team_history", "get_ranks", "get_race_history"}

Init ==
    /\ call \in Calls
    /\ \/ call = "get_name" /\ soup \in NameSoups
       \/ call = "get_age" /\ soup \in AgeSoups
       \/ call = "get_height" /\ soup \in InfoSoups(HeightAlphabet)
       \/ call = "get_weight" /\ soup \in InfoSoups(WeightAlphabet)
       \/ call = "get_strava" /\ StravaSoup(soup)
       \/ call = "get_team_history" /\ soup \in TeamSoups
       \/ call = "get_ranks" /\ soup \in RankSoups
       \/ call = "get_race_history" /\ RaceSoup(soup)
    /\ pc = "start"
    /\ result = NoResult
    /\ limits = <<>>
    /\ page = 0
    /\ table_rows = <<>>
    /\ i = 0
    /\ data_out = <<>>

Next ==
    \/ get_name
    \/ get_age
    \/ get_height
    \/ get_weight
    \/ get_strava
    \/ get_team_history
    \/ get_ranks
    \/ rh_discover
    \/ rh_fetch
    \/ rh_row
    \/ rh_frame

Spec == Init /\ [][Next]_vars

----------------------------------------------------------------------------
(* Properties of get_name *)

Done(c) == call = c /\ pc = "done"

TripleSpace == <<" ", " ", " ">>

NonSpaces(s) == SelectSeq(s, LAMBDA c : c # " ")

HeadingOf(s) == s.title.val.val

HasHeading(s) == s.title.present /\ s.title.val.present

(* C10, as stated: for every heading text the name get_name returns holds no
   two adjacent spaces, and collapsing it again leaves it unchanged. *)
C10_NameHasNoDoubleSpace ==
    (Done("get_name") /\ HasHeading(soup)) =>
        /\ result.kind = "return"
        /\ ~PyContains(result.value.chars, DoubleSpace)
        /\ PyReplace(result.value.chars, DoubleSpace, SingleSpace) = result.value.chars

(* C10, amended: get_name replaces each double space by a single space in one
   left-to-right pass.  For every heading text with no run of three or more
   spaces the returned name holds no two adjacent spaces, collapsing it again
   leaves it unchanged, and its other characters are those of the heading in
   order; the heading "J  D" gives "J D". *)
C10_NameCollapsedOnce ==
    (Done("get_name") /\ HasHeading(soup)) =>
        /\ result.kind = "return"
        /\ NonSpaces(result.value.chars) = NonSpaces(HeadingOf(soup))
        /\ ~PyContains(HeadingOf(soup), TripleSpace) =>
              /\ ~PyContains(result.value.chars, DoubleSpace)
              /\ PyReplace(result.value.chars, DoubleSpace, SingleSpace)
                    = result.value.chars
        /\ HeadingOf(soup) = <<"J", " ", " ", "D">> =>
              result.value.chars = <<"J", " ", "D">>

C10_Witness ==
    /\ Done("get_name")
    /\ HasHeading(soup)
    /\ HeadingOf(soup) = <<"J", " ", " ", "D">>
    /\ result = Return(PyStr(<<"J", " ", "D">>))

----------------------------------------------------------------------------
(* Properties of get_age *)

InfoText(s) == TextOf(s.info.val)

(* the characters strictly between the first "(" and the first ")" *)
GroupOf(t) == SubSeq(t, PyFind(t, "(") + 2, PyFind(t, ")"))

(* a parenthesized group holding only digits, between the first "(" and the
   first ")" *)
HasDigitGroup(t) ==
    /\ PyFind(t, "(") >= 0
    /\ PyFind(t, ")") > PyFind(t, "(")
    /\ GroupOf(t) # <<>>
    /\ \A k \in 1..Len(GroupOf(t)) : GroupOf(t)[k] \in Digits

(* C2: get_age returns an integer if and only if the info-block text holds a
   parenthesized group of digits only, between the first "(" and the first
   ")", and then returns that group's value; for every other text it raises. *)
C2_AgeIffDigitGroup ==
    (Done("get_age") /\ soup.info.present) =>
        IF HasDigitGroup(InfoText(soup))
        THEN result = Return(PyInt(DigitsValue(GroupOf(InfoText(soup)))))
        ELSE result.kind = "raise"

----------------------------------------------------------------------------
(* Properties of get_height and get_weight *)

Matches(s, pattern) == \E k \in 1..Len(s.info.val) : PyContains(s.info.val[k], pattern)

MatchingText(s, pattern) == FindString(s.info.val, pattern).val

(* C3: with the info block present, get_height returns None without raising
   when no text of the block matches " m", and the leading token of the
   matching text parsed as a float when one does. *)
C3_HeightNoneWhenAbsent ==
    (Done("get_height") /\ soup.info.present) =>
        IF Matches(soup, HeightPattern)
        THEN result = FloatOfStr(PySplit(MatchingText(soup, HeightPattern))[1])
        ELSE result = Return(PyNone)

(* C4: with the info block present, get_weight returns the first purely
   numeric token of the text matching " kg" as a float ("68 kg" gives 68.0),
   and None without raising when the block has no "kg" token. *)
C4_WeightNoneWhenAbsent ==
    (Done("get_weight") /\ soup.info.present) =>
        IF Matches(soup, WeightPattern)
        THEN LET numeric == SelectSeq(PySplit(MatchingText(soup, WeightPattern)), IsDigit)
             IN  numeric # <<>> => result = FloatOfStr(numeric[1])
        ELSE result = Return(PyNone)

----------------------------------------------------------------------------
(* Properties of get_strava *)

HasStravaHref(link) == PyContains(link.href, StravaWord)

SiteList(s) == IF s.sites.present THEN s.sites.val ELSE <<>>

(* the part of an href after its final "/" (all of it when it has none) *)
RECURSIVE AfterFinalSlash(_)
AfterFinalSlash(s) ==
    IF s = <<>> \/ s[Len(s)] = "/" THEN <<>>
    ELSE AfterFinalSlash(SubSeq(s, 1, Len(s) - 1)) \o <<s[Len(s)]>>

(* C5: for every document with no strava link, the social-links list empty
   or missing included, get_strava returns {link: "", id: ""} and raises
   nothing. *)
C5_NoStravaGivesEmpty ==
    (Done("get_strava")
       /\ \A k \in 1..Len(SiteList(soup)) : ~HasStravaHref(SiteList(soup)[k])) =>
        result = Return(StravaDict(<<>>, <<>>))

(* C6: for every social-links list with an entry whose href contains
   "strava", get_strava returns such an entry's href as link and the part
   after its final "/" as id, whatever the entry's display text is. *)
C6_StravaHrefFound ==
    (Done("get_strava")
       /\ \E k \in 1..Len(SiteList(soup)) : HasStravaHref(SiteList(soup)[k])) =>
        /\ result.kind = "return"
        /\ \E k \in 1..Len(SiteList(soup)) :
              /\ HasStravaHref(SiteList(soup)[k])
              /\ result.value.link = SiteList(soup)[k].href
              /\ result.value.id = AfterFinalSlash(SiteList(soup)[k].href)

----------------------------------------------------------------------------
(* Properties of get_team_history *)

ExampleTeamName == <<"e", "x", "a", "m", "p", "l", "e", "-", "t", "e", "a", "m">>

ExampleTeamYear == <<"2", "0", "2", "3">>

(* h without its first 5 and its last 5 characters *)
WithoutFiveEachEnd(h) == [k \in 1..Max(Len(h) - 10, 0) |-> h[k + 5]]

(* the last 4 characters of h *)
LastFour(h) == [k \in 1..Min(Len(h), 4) |-> h[Len(h) - Min(Len(h), 4) + k]]

TeamRows == result.value.rows

(* C7, as stated: the link "/team/example-team-2023" yields the identifier
   "example-team" and the year "2023". *)
C7_SlashedExampleGivesName ==
    (Done("get_team_history") /\ result.kind = "return") =>
        \A k \in 1..Len(TeamRows) :
            TeamRows[k].team_href = SlashedTeamHref =>
                /\ TeamRows[k].team_pcs_name = ExampleTeamName
                /\ TeamRows[k].team_pcs_year = ExampleTeamYear

(* C7, amended: for every team-history entry the identifier is the link
   without its first 5 and last 5 characters and the year is the link's last
   4 characters; "team/example-team-2023" yields "example-team" and "2023",
   and "/team/example-team-2023" yields "/example-team" and "2023". *)
C7_TeamNameAndYearSliced ==
    (Done("get_team_history") /\ result.kind = "return") =>
        /\ Len(TeamRows) = Len(soup.teams.val)
        /\ \A k \in 1..Len(TeamRows) :
              LET h == soup.teams.val[k].a.val.href
              IN  /\ TeamRows[k].team_href = h
                  /\ TeamRows[k].team_pcs_name = WithoutFiveEachEnd(h)
                  /\ TeamRows[k].team_pcs_year = LastFour(h)
                  /\ h = ExampleTeamHref =>
                        /\ TeamRows[k].team_pcs_name = ExampleTeamName
                        /\ TeamRows[k].team_pcs_year = ExampleTeamYear
                  /\ h = SlashedTeamHref =>
                        /\ TeamRows[k].team_pcs_name = <<"/">> \o ExampleTeamName
                        /\ TeamRows[k].team_pcs_year = ExampleTeamYear

C7_Witness ==
    /\ Done("get_team_history")
    /\ result.kind = "return"
    /\ Len(TeamRows) = 2
    /\ TeamRows[1].team_href = ExampleTeamHref
    /\ TeamRows[1].team_pcs_name = ExampleTeamName
    /\ TeamRows[2].team_href = SlashedTeamHref
    /\ TeamRows[2].team_pcs_name = <<"/">> \o ExampleTeamName
    /\ TeamRows[2].team_pcs_year = ExampleTeamYear

----------------------------------------------------------------------------
(* Properties of get_ranks *)

RankTexts == soup.rankings.val

ParsesAsInt(t) == IntOfStr(t).kind = "return"

(* C8, as stated: get_ranks returns {pcs: first, uci: second} when the list
   holds exactly two rank values, and raises whenever it holds fewer or more
   than two. *)
C8_RanksOnlyForExactlyTwo ==
    (Done("get_ranks") /\ soup.rankings.present) =>
        IF Len(RankTexts) = 2
        THEN (ParsesAsInt(RankTexts[1]) /\ ParsesAsInt(RankTexts[2])) =>
                result = Return(RanksDict(IntOfStr(RankTexts[1]).value,
                                          IntOfStr(RankTexts[2]).value))
        ELSE result.kind = "raise"

(* C8, amended: get_ranks returns {pcs: integer of the first rank value, uci:
   integer of the second} when the list holds at least two rank values and
   int() accepts the first two, passing over any further ones, and raises an
   error in every other case, a list of fewer than two included. *)
C8_RanksFromFirstTwo ==
    (Done("get_ranks") /\ soup.rankings.present) =>
        IF Len(RankTexts) >= 2 /\ ParsesAsInt(RankTexts[1]) /\ ParsesAsInt(RankTexts[2])
        THEN result = Return([type |-> "dict",
                              pcs |-> PyInt(DigitsValue(RankTexts[1])),
                              uci |-> PyInt(DigitsValue(RankTexts[2]))])
        ELSE result.kind = "raise"

C8_Witness ==
    /\ Done("get_ranks")
    /\ soup.rankings.present
    /\ RankTexts = <<<<"3">>, <<"3", "3">>, <<"x">>>>
    /\ result = Return([type |-> "dict", pcs |-> PyInt(3), uci |-> PyInt(33)])

----------------------------------------------------------------------------
(* Properties of get_race_history *)

Returned(c) == Done(c) /\ result.kind = "return"

Records == result.value.rows

(* the rows of the pages that are not the last row of their page, page after
   page in the order of the offsets, in document order within a page *)
RECURSIVE KeptRows(_)
KeptRows(pages) ==
    IF pages = <<>> THEN <<>>
    ELSE SubSeq(Head(pages).val, 1, Len(Head(pages).val) - 1) \o KeptRows(Tail(pages))

RECURSIVE RowsLessOne(_)
RowsLessOne(pages) ==
    IF pages = <<>> THEN 0 ELSE (Len(Head(pages).val) - 1) + RowsLessOne(Tail(pages))

RECURSIVE RowsButLast(_)
RowsButLast(pages) ==
    IF pages = <<>> THEN 0
    ELSE Max(Len(Head(pages).val) - 1, 0) + RowsButLast(Tail(pages))

PlaceOf(j) == IF j < 3 THEN j ELSE j + 3

(* the places of date, result, classification, distance, pcs_points and
   uci_points in a record *)
NonRacePlaces == {1, 2, 7, 8, 9, 10}

(* C9: in every record get_race_history returns, no field taken from a
   non-race column is the empty string: a cell with empty text is stored as
   "-" and a cell with non-empty text as that text, unchanged. *)
C9_EmptyCellsStoredAsDash ==
    Returned("get_race_history") =>
        \A n \in 1..Len(Records) :
            /\ \A f \in NonRacePlaces : Records[n][f] # PyStr(<<>>)
            /\ LET row == KeptRows(soup.pages)[n]
               IN  \A j \in 1..(Len(row) - 1) :
                      j # 3 =>
                        Records[n][PlaceOf(j)] =
                            PyStr(IF row[j + 1].text = <<>> THEN <<"-">> ELSE row[j + 1].text)

C9_Witness ==
    /\ Returned("get_race_history")
    /\ \E n \in 1..Len(Records) :
          /\ KeptRows(soup.pages)[n] = SparseRow
          /\ Records[n][1] = PyStr(<<"d">>)
          /\ \A f \in {2, 7, 8, 9, 10} : Records[n][f] = PyStr(<<"-">>)

====
